---- MODULE Spec2Model ----
(***************************************************************************)
(* Model of SecurePhDBot (src/phd_bot.py): the relevance scorer, the       *)
(* privacy hasher, and the scan / dashboard / cover-letter run.            *)
(*                                                                         *)
(* Python strings are sequences of one-character strings, so that          *)
(* lower(), the substring test "in", split() and slicing are computed      *)
(* character by character.  Floats are exact rationals <<num, den>> in     *)
(* lowest terms.                                                           *)
(***************************************************************************)
EXTENDS Integers, Sequences, FiniteSets, TLC

VARIABLES
    config,         \* self.config
    opportunities,  \* self.opportunities
    pc,             \* position inside run_complete_scan / scan_opportunities
    feedIdx,        \* index of the feed the for loop of scan_opportunities is at
    visited,        \* feeds whose try block was entered, in order
    fetched,        \* number of entries feedparser has delivered so far
    scans,          \* number of scan_opportunities calls started
    hasherCalls,    \* call sites from which hash_data / hash_url ran
    dashboard,      \* value returned by create_dashboard
    cover_letter,   \* text written to sample_cover_letter_template.txt
    lastFeed,       \* the last pass of the for loop: its feed, the entries it processed,
                    \* whether it raised, and whether the pass before it had raised
    text,           \* argument of calculate_relevance
    relevance,      \* value returned by calculate_relevance
    prev,           \* value returned before the keyword list was edited
    op,             \* last operation applied to the scorer or the hasher
    editkw,         \* keyword added or substituted by the last edit
    url,            \* argument of hash_url
    hashed          \* value returned by hash_url

vars == <<config, opportunities, pc, feedIdx, visited, fetched, scans, hasherCalls,
          dashboard, cover_letter, lastFeed, text, relevance, prev, op, editkw,
          url, hashed>>

botVars == <<opportunities, pc, feedIdx, visited, fetched, scans, hasherCalls,
             dashboard, cover_letter, lastFeed>>
scoreVars == <<text, relevance, prev, op, editkw>>
hashVars == <<url, hashed>>

----------------------------------------------------------------------------
(* Bounds of the model *)

MaxInterests == 1
MaxCategories == 1

----------------------------------------------------------------------------
(* Python str *)

\* None is the empty sequence; a value x that may be None is held as <<x>>
None == <<>>

\* chr(32) .. chr(126); chr(96) is spelled out, a string cannot hold it
Ascii == <<" ","!","\"","#","$","%","&","'","(",")","*","+",",","-",".","/","0","1","2","3","4","5","6","7","8","9",":",";","<","=",">","?","@","A","B","C","D","E","F","G","H","I","J","K","L","M","N","O","P","Q","R","S","T","U","V","W","X","Y","Z","[","\\","]","^","_","grave","a","b","c","d","e","f","g","h","i","j","k","l","m","n","o","p","q","r","s","t","u","v","w","x","y","z","{","|","}","~">>

\* ord(c), as a table
ord == [c \in {Ascii[i] : i \in 1..Len(Ascii)} |->
          31 + (CHOOSE i \in 1..Len(Ascii) : Ascii[i] = c)]

\* c.lower(), as a table: "A".."Z" (65..90) move 32 up, all else stays
lower_char == [c \in {Ascii[i] : i \in 1..Len(Ascii)} |->
                 IF ord[c] >= 65 /\ ord[c] <= 90 THEN Ascii[ord[c] + 32 - 31] ELSE c]

lower(s) == [i \in 1..Len(s) |-> lower_char[s[i]]]

\* sub starts at offset i (0-based) of s
starts_at(s, sub, i) == \A j \in 1..Len(sub) : s[i + j] = sub[j]

\* sub in s
Contains(sub, s) == \E i \in 0..(Len(s) - Len(sub)) : starts_at(s, sub, i)

RECURSIVE find_from(_, _, _)
find_from(s, sub, i) ==
    IF i + Len(sub) > Len(s) THEN -1
    ELSE IF starts_at(s, sub, i) THEN i
    ELSE find_from(s, sub, i + 1)

\* s.find(sub): offset of the first occurrence (0-based), -1 when absent
find(s, sub) == find_from(s, sub, 0)

\* s.split(sep): cut at the non-overlapping occurrences of sep, left to right
RECURSIVE split(_, _)
split(s, sep) ==
    LET i == find(s, sep)
    IN  IF i < 0 THEN <<s>>
        ELSE <<SubSeq(s, 1, i)>> \o split(SubSeq(s, i + Len(sep) + 1, Len(s)), sep)

\* s[:n]
prefix(s, n) == SubSeq(s, 1, IF Len(s) < n THEN Len(s) ELSE n)

Range(s) == {s[i] : i \in DOMAIN s}

SeqsUpTo(S, n) == UNION {[1..k -> S] : k \in 0..n}

RECURSIVE Flatten(_)
Flatten(ss) == IF ss = <<>> THEN <<>> ELSE Head(ss) \o Flatten(Tail(ss))

----------------------------------------------------------------------------
(* Python float, as an exact rational *)

RECURSIVE GCD(_, _)
GCD(a, b) == IF b = 0 THEN a ELSE GCD(b, a % b)

Rat(n, d) == LET g == GCD(n, d) IN <<n \div g, d \div g>>

RatLeq(a, b) == a[1] * b[2] <= b[1] * a[2]
RatLt(a, b) == a[1] * b[2] < b[1] * a[2]
RatEq(a, b) == a[1] * b[2] = b[1] * a[2]
RatMin(a, b) == IF RatLeq(a, b) THEN a ELSE b

Zero == <<0, 1>>
One == <<1, 1>>

----------------------------------------------------------------------------
(* load_config *)

default_config ==
    [user_profile |->
        [research_interests |->
            << <<"M","a","c","h","i","n","e"," ","L","e","a","r","n","i","n","g">>, <<"A","r","t","i","f","i","c","i","a","l"," ","I","n","t","e","l","l","i","g","e","n","c","e">>, <<"D","a","t","a"," ","S","c","i","e","n","c","e">>,
               <<"C","o","m","p","u","t","e","r"," ","V","i","s","i","o","n">>, <<"D","e","e","p"," ","L","e","a","r","n","i","n","g">> >>,
         \* the dict's values, in insertion order
         technical_skills |->
            << << <<"P","y","t","h","o","n">>, <<"S","Q","L">>, <<"R">>, <<"C","+","+">> >>,
               << <<"S","p","a","r","k">>, <<"H","a","d","o","o","p">>, <<"H","D","F","S">> >>,
               << <<"T","e","n","s","o","r","F","l","o","w">>, <<"P","y","T","o","r","c","h">>, <<"s","c","i","k","i","t","-","l","e","a","r","n">> >> >>],
     scanning |->
        [max_entries_per_feed |-> 10,
         min_relevance_score |-> <<2, 5>>],
     privacy |->
        [hash_identifiers |-> TRUE,
         log_sensitive_data |-> FALSE]]

\* keywords a user configuration is assembled from
KwPool == {<<"P","h","D">>, <<"R">>, <<"S","p","a","r","k">>, <<>>}

SkillLists == {<< <<"R">> >>, << <<"S","p","a","r","k">>, <<"P","h","D">> >>, << <<"r","e","s","e","a","r","c","h">>, <<"P","y","t","h","o","n">> >>}

\* deep_merge of a user file that sets the two keyword groups
with_keywords(base, interests, skills) ==
    [base EXCEPT !.user_profile.research_interests = interests,
                 !.user_profile.technical_skills = skills]

----------------------------------------------------------------------------
(* calculate_relevance *)

academic_keywords ==
    << <<"p","h","d">>, <<"d","o","c","t","o","r","a","l">>, <<"r","e","s","e","a","r","c","h">>, <<"g","r","a","d","u","a","t","e">>, <<"a","s","s","i","s","t","a","n","t">>,
       <<"f","u","n","d","e","d">>, <<"s","c","h","o","l","a","r","s","h","i","p">>, <<"f","e","l","l","o","w","s","h","i","p">>, <<"s","t","u","d","e","n","t","s","h","i","p">> >>

BoostNum == 3
BoostDen == 2

\* remove later copies of a keyword, keeping the first
RECURSIVE unique(_)
unique(ks) ==
    IF ks = <<>> THEN <<>>
    ELSE LET front == unique(SubSeq(ks, 1, Len(ks) - 1))
             last == ks[Len(ks)]
         IN  IF \E i \in DOMAIN front : front[i] = last THEN front ELSE Append(front, last)

\* all_keywords with duplicates removed
all_keywords_unique(cfg) ==
    LET field_keywords == cfg.user_profile.research_interests
        field_keywords_lower == [i \in 1..Len(field_keywords) |-> lower(field_keywords[i])]
        skills == Flatten(cfg.user_profile.technical_skills)
        tech_skills == [i \in 1..Len(skills) |-> lower(skills[i])]
    IN  unique(academic_keywords \o field_keywords_lower \o tech_skills)

all_keywords(cfg) ==
    LET field_keywords == cfg.user_profile.research_interests
        field_keywords_lower == [i \in 1..Len(field_keywords) |-> lower(field_keywords[i])]
        skills == Flatten(cfg.user_profile.technical_skills)
        tech_skills == [i \in 1..Len(skills) |-> lower(skills[i])]
    IN  academic_keywords \o field_keywords_lower \o tech_skills

\* for keyword in all_keywords: if keyword not in text_lower: score += 1
RECURSIVE count_absent(_, _)
count_absent(keywords, text_lower) ==
    IF keywords = <<>> THEN 0
    ELSE (IF Contains(Head(keywords), text_lower) THEN 0 ELSE 1)
         + count_absent(Tail(keywords), text_lower)

\* number of (possibly overlapping) places where sub starts in s
occurrences(sub, s) ==
    Cardinality({i \in 0..(Len(s) - Len(sub)) : starts_at(s, sub, i)})

\* for keyword in all_keywords: score += occurrences of keyword
RECURSIVE count_occurrences(_, _)
count_occurrences(keywords, text_lower) ==
    IF keywords = <<>> THEN 0
    ELSE occurrences(Head(keywords), text_lower)
         + count_occurrences(Tail(keywords), text_lower)

\* for keyword in all_keywords: if keyword in text_lower: score += 1
RECURSIVE count_matches(_, _)
count_matches(keywords, text_lower) ==
    IF keywords = <<>> THEN 0
    ELSE (IF Contains(Head(keywords), text_lower) THEN 1 ELSE 0)
         + count_matches(Tail(keywords), text_lower)

\* score / max_possible_score * 1.5, never clamped
normalize_unclamped(score, max_possible_score) ==
    IF max_possible_score > 0
    THEN Rat(score * BoostNum, max_possible_score * BoostDen)
    ELSE Zero

\* min(score / max_possible_score * 1.5, 1.0) if max_possible_score > 0 else 0
normalize(score, max_possible_score) ==
    IF max_possible_score > 0
    THEN RatMin(Rat(score * BoostNum, max_possible_score * BoostDen), One)
    ELSE Zero

calculate_relevance(cfg, t) ==
    LET text_lower == lower(t)
        keywords == all_keywords(cfg)
        score == count_matches(keywords, text_lower)
        max_possible_score == Len(keywords)
    IN  normalize(score, max_possible_score)

----------------------------------------------------------------------------
(* The scorer applied to bounded inputs *)

Texts ==
    { <<>>,
      <<"P","h","D">>,
      <<"F","u","n","d","e","d"," ","P","h","D"," ","i","n"," ","R",";"," ","p","h","d"," ","r","e","s","e","a","r","c","h">>,
      <<"S","o","f","t","w","a","r","e"," ","e","n","g","i","n","e","e","r"," ","p","o","s","i","t","i","o","n",","," ","n","o"," ","r","e","s","e","a","r","c","h"," ","c","o","m","p","o","n","e","n","t">>,
      <<"S","p","a","r","k"," ","P","H","D",":"," ","f","u","n","d","e","d"," ","d","o","c","t","o","r","a","l"," ","r","e","s","e","a","r","c","h"," ","a","s","s","i","s","t","a","n","t",","," ","g","r","a","d","u","a","t","e"," ","s","c","h","o","l","a","r","s","h","i","p",","," ","f","e","l","l","o","w","s","h","i","p"," ","o","r"," ","s","t","u","d","e","n","t","s","h","i","p">> }

ScoreConfigs ==
    {default_config} \cup
    { with_keywords(default_config, ri, ts) :
        ri \in SeqsUpTo(KwPool, MaxInterests),
        ts \in SeqsUpTo(SkillLists, MaxCategories) }

\* bot.calculate_relevance(text)
Calc ==
    /\ op = "init"
    /\ relevance' = calculate_relevance(config, text)
    /\ op' = "calc"
    /\ UNCHANGED <<config, text, prev, editkw, botVars, hashVars>>

\* a keyword already in the list is listed once more, as a research interest
\* or in a new skill category, and the text is scored again
AddDuplicate ==
    /\ op = "calc"
    /\ \E kw \in Range(all_keywords(config)), site \in {"research_interests", "technical_skills"} :
        /\ config' =
             IF site = "research_interests"
             THEN [config EXCEPT !.user_profile.research_interests = Append(@, kw)]
             ELSE [config EXCEPT !.user_profile.technical_skills = Append(@, <<kw>>)]
        /\ editkw' = kw
    /\ prev' = relevance
    /\ relevance' = calculate_relevance(config', text)
    /\ op' = "dup"
    /\ UNCHANGED <<text, botVars, hashVars>>

\* a research interest or a technical skill that does not occur in the text
\* is replaced by a keyword that does, and the text is scored again
ReplaceKeyword ==
    /\ op = "calc"
    /\ \E kw \in KwPool :
        /\ Contains(lower(kw), lower(text))
        /\ \/ \E i \in DOMAIN config.user_profile.research_interests :
                /\ ~Contains(lower(config.user_profile.research_interests[i]), lower(text))
                /\ config' = [config EXCEPT !.user_profile.research_interests[i] = kw]
           \/ \E c \in DOMAIN config.user_profile.technical_skills :
                \E i \in DOMAIN config.user_profile.technical_skills[c] :
                    /\ ~Contains(lower(config.user_profile.technical_skills[c][i]),
                                 lower(text))
                    /\ config' = [config EXCEPT !.user_profile.technical_skills[c][i] = kw]
        /\ editkw' = kw
    /\ prev' = relevance
    /\ relevance' = calculate_relevance(config', text)
    /\ op' = "replace"
    /\ UNCHANGED <<text, botVars, hashVars>>

BotIdle ==
    /\ opportunities = <<>>
    /\ pc = "idle"
    /\ feedIdx = 0
    /\ visited = <<>>
    /\ fetched = 0
    /\ scans = 0
    /\ hasherCalls = {}
    /\ dashboard = None
    /\ cover_letter = None
    /\ lastFeed = [feed |-> 0, processed |-> <<>>, raised |-> FALSE, after_raise |-> FALSE]

ScoreIdle ==
    /\ text = <<>>
    /\ relevance = Zero
    /\ prev = Zero
    /\ op = "init"
    /\ editkw = <<>>

HashIdle ==
    /\ url = <<>>
    /\ hashed = <<>>

InitScore ==
    /\ config \in ScoreConfigs
    /\ text \in Texts
    /\ relevance = Zero
    /\ prev = Zero
    /\ op = "init"
    /\ editkw = <<>>
    /\ BotIdle
    /\ HashIdle

NextScore == Calc \/ AddDuplicate \/ ReplaceKeyword

SpecScore == InitScore /\ [][NextScore]_vars

----------------------------------------------------------------------------
(* hash_data, hash_url *)

HexDigits == <<"0","1","2","3","4","5","6","7","8","9","a","b","c","d","e","f">>

\* hexdigest() of an MD5 digest has 32 hexadecimal characters
DigestLen == 32

\* hash_data keeps hexdigest()[:12]; the id computed without it keeps [:8]
HashLen == 12
FallbackLen == 8

RECURSIVE mix(_, _, _)
mix(data, i, j) ==
    IF j > Len(data) THEN 0
    ELSE ((i + j) * ord[data[j]] + mix(data, i, j + 1)) % 16

\* hashlib.md5(data.encode()).hexdigest(): MD5 itself is abstracted by a
\* digest that is a function of every character and of the length of data
\* and is rendered as DigestLen lowercase hexadecimal characters
md5_hexdigest(data) ==
    [i \in 1..DigestLen |-> HexDigits[1 + ((i * i + Len(data) + mix(data, i, 1)) % 16)]]

hash_data(data) == prefix(md5_hexdigest(data), HashLen)

\* url.split('//')[-1].split('/')[0]
url_domain(u) ==
    LET parts == split(u, <<"/","/">>)
    IN  split(parts[Len(parts)], <<"/">>)[1]

hash_url(u) == <<"h","t","t","p","s",":","/","/">> \o hash_data(url_domain(u)) \o <<".","e","d","u">>

----------------------------------------------------------------------------
(* The hasher applied to bounded inputs *)

MaxUrlLen == 7

rss_feeds ==
    << <<"h","t","t","p","s",":","/","/","w","w","w",".","f","i","n","d","a","p","h","d",".","c","o","m","/","r","s","s","/","l","a","t","e","s","t","p","h","d","s",".","a","s","p","x">>,
       <<"h","t","t","p","s",":","/","/","a","c","a","d","e","m","i","c","p","o","s","i","t","i","o","n","s",".","c","o","m","/","f","i","n","d","-","j","o","b","s","/","r","s","s">>,
       <<"h","t","t","p","s",":","/","/","w","w","w",".","n","a","t","u","r","e",".","c","o","m","/","n","a","t","u","r","e","/","a","r","t","i","c","l","e","s","?","t","y","p","e","=","c","a","r","e","e","r","-","c","o","l","u","m","n">>,
       <<"h","t","t","p","s",":","/","/","c","a","r","e","e","r",".","c","o","r","n","e","l","l",".","e","d","u","/","f","e","e","d","/">>,
       <<"h","t","t","p","s",":","/","/","c","a","r","e","e","r",".","s","t","a","n","f","o","r","d",".","e","d","u","/","f","e","e","d","/">> >>

Urls ==
    SeqsUpTo({"a", ":", "/"}, MaxUrlLen)
    \cup Range(rss_feeds)
    \cup { <<"h","t","t","p","s",":","/","/","e","x","a","m","p","l","e",".","e","d","u","/","f","e","e","d">>, <<"n","o","t","-","a","-","u","r","l">>, <<"e","x","a","m","p","l","e",".","e","d","u","/","a","/","/","b">>,
           <<"h","t","t","p","s",":","/","/","e","x","a","m","p","l","e",".","e","d","u","/","f","e","e","d","/","/","r","s","s">>, <<"h","t","t","p","s",":","/","/","e","x","a","m","p","l","e",".","e","d","u","/","g","o","?","t","o","=","h","t","t","p",":","/","/","o","t","h","e","r",".","o","r","g","/","x">> }

\* bot.hash_url(url)
HashUrl ==
    /\ op = "init"
    /\ hashed' = hash_url(url)
    /\ op' = "hash_url"
    /\ UNCHANGED <<config, url, text, relevance, prev, editkw, botVars>>

\* bot.hash_data(url)
HashData ==
    /\ op = "init"
    /\ hashed' = hash_data(url)
    /\ op' = "hash_data"
    /\ UNCHANGED <<config, url, text, relevance, prev, editkw, botVars>>

InitHash ==
    /\ config = default_config
    /\ url \in Urls
    /\ hashed = <<>>
    /\ ScoreIdle
    /\ BotIdle

NextHash == HashUrl \/ HashData

SpecHash == InitHash /\ [][NextHash]_vars

----------------------------------------------------------------------------
(* process_opportunity *)

MaxFeedLen == 2
MaxFetched == 2
MaxScans == 1

SummaryLimit == 200
DateLen == 10
Decimals == 1000

\* datetime.now().isoformat(): the clock is abstracted to one instant
NowIso == <<"2","0","2","6","-","0","1","-","0","1","T","0","9",":","3","0",":","0","0",".","0","0","0","0","0","0">>

\* entry.get(key, default)
get(entry, key, default) == IF key \in DOMAIN entry THEN entry[key] ELSE default

\* process_opportunity with the identifier hashed whatever the flag says
process_opportunity_always_hashed(cfg, entry, source) ==
    LET title == get(entry, "title", <<"U","n","k","n","o","w","n"," ","T","i","t","l","e">>)
        link == get(entry, "link", <<>>)
        summary == get(entry, "summary", get(entry, "description", <<>>))
    IN  [id |-> hash_data(title \o link),
         title |-> title,
         link |-> link,
         summary |-> IF Len(summary) > SummaryLimit
                     THEN prefix(summary, SummaryLimit) \o <<".",".",".">> ELSE summary,
         published |-> get(entry, "published", NowIso),
         source |-> hash_url(source),
         relevance |-> calculate_relevance(cfg, title \o <<" ">> \o summary),
         processed_date |-> NowIso]

process_opportunity(cfg, entry, source) ==
    LET title == get(entry, "title", <<"U","n","k","n","o","w","n"," ","T","i","t","l","e">>)
        link == get(entry, "link", <<>>)
        summary == get(entry, "summary", get(entry, "description", <<>>))
        relevance_ == calculate_relevance(cfg, title \o <<" ">> \o summary)
        opportunity_id ==
            IF cfg.privacy.hash_identifiers
            THEN hash_data(title \o link)
            ELSE prefix(md5_hexdigest(title \o link), FallbackLen)
    IN  [id |-> opportunity_id,
         title |-> title,
         link |-> link,
         summary |-> IF Len(summary) > SummaryLimit
                     THEN prefix(summary, SummaryLimit) \o <<".",".",".">> ELSE summary,
         published |-> get(entry, "published", NowIso),
         source |-> hash_url(source),
         relevance |-> relevance_,
         processed_date |-> NowIso]

\* the places of process_opportunity that run the hasher
process_hasher_calls(cfg) ==
    (IF cfg.privacy.hash_identifiers THEN {"process_opportunity:id"} ELSE {})
    \cup {"process_opportunity:source"}

----------------------------------------------------------------------------
(* scan_opportunities *)

NumFeeds == Len(rss_feeds)

\* what feedparser may deliver as an entry
EntryPool ==
    { [title |-> <<"F","u","n","d","e","d"," ","P","h","D"," ","i","n"," ","R">>, link |-> <<"h","t","t","p","s",":","/","/","a",".","e","d","u","/","1">>,
       summary |-> <<"d","o","c","t","o","r","a","l"," ","r","e","s","e","a","r","c","h">>, published |-> <<"2","0","2","4","-","0","3","-","0","5","T","0","8",":","0","0",":","0","0","Z">>],
      [title |-> <<"P","h","D"," ","r","e","s","e","a","r","c","h">>, link |-> <<"h","t","t","p","s",":","/","/","b",".","o","r","g","/","2","/","/","x">>,
       description |-> <<>>],
      [link |-> <<>>] }

\* a user file merged over the defaults by deep_merge
user_config(interests, skills, max_entries, min_score, hash_ids, log_sensitive) ==
    [with_keywords(default_config, interests, skills) EXCEPT
        !.scanning.max_entries_per_feed = max_entries,
        !.scanning.min_relevance_score = min_score,
        !.privacy.hash_identifiers = hash_ids,
        !.privacy.log_sensitive_data = log_sensitive]

\* configurations load_config may return
BotConfigs ==
    { default_config,
      user_config(default_config.user_profile.research_interests,
                  default_config.user_profile.technical_skills,
                  10, <<3, 10>>, FALSE, TRUE),
      user_config(<< <<"S","p","a","r","k">> >>, <<>>, 10, <<3, 10>>, TRUE, FALSE),
      user_config(<< <<"S","p","a","r","k">> >>, <<>>, 1, <<3, 10>>, FALSE, FALSE),
      user_config(<< <<"S","p","a","r","k">> >>, <<>>, 10, <<2, 5>>, FALSE, TRUE),
      user_config(<< <<"S","p","a","r","k">> >>, << << <<"R">> >> >>, 10, <<0, 1>>, TRUE, TRUE) }

\* process_opportunity on every entry of every feed, computed once
processed_table ==
    [cfg \in BotConfigs, entry \in EntryPool, i \in 1..NumFeeds |->
        process_opportunity(cfg, entry, rss_feeds[i])]

\* opportunity['relevance'] > min_relevance_score
keep_strict(cfg, opportunity) ==
    RatLt(cfg.scanning.min_relevance_score, opportunity.relevance)

\* opportunity['relevance'] >= min_relevance_score
keep(cfg, opportunity) ==
    RatLeq(cfg.scanning.min_relevance_score, opportunity.relevance)

RECURSIVE kept(_, _)
kept(cfg, processed) ==
    IF processed = <<>> THEN <<>>
    ELSE (IF keep(cfg, Head(processed)) THEN <<Head(processed)>> ELSE <<>>)
         \o kept(cfg, Tail(processed))

\* the entries of one feed, as feedparser.parse may return them
FeedEntries == SeqsUpTo(EntryPool, IF MaxFetched - fetched < MaxFeedLen
                                   THEN MaxFetched - fetched ELSE MaxFeedLen)

\* a call of scan_opportunities begins
StartScan ==
    /\ pc \in {"idle", "scanned", "done"}
    /\ scans < MaxScans
    /\ scans' = scans + 1
    /\ pc' = "scanning"
    /\ feedIdx' = 1
    /\ visited' = <<>>
    /\ UNCHANGED <<config, opportunities, fetched, hasherCalls, dashboard, cover_letter,
                   lastFeed, scoreVars, hashVars>>

\* one pass of the for loop whose try block completes
ScanFeed ==
    /\ pc = "scanning"
    /\ feedIdx <= NumFeeds
    /\ \E entries \in FeedEntries :
        LET taken == prefix(entries, config.scanning.max_entries_per_feed)
            processed == [i \in 1..Len(taken) |->
                            processed_table[config, taken[i], feedIdx]]
        IN  /\ opportunities' = opportunities \o kept(config, processed)
            /\ fetched' = fetched + Len(entries)
            /\ hasherCalls' = hasherCalls \cup {"scan_opportunities:checking"}
                   \cup (IF taken = <<>> THEN {} ELSE process_hasher_calls(config))
            /\ lastFeed' = [feed |-> feedIdx, processed |-> processed, raised |-> FALSE,
                            after_raise |-> lastFeed.raised /\ visited # <<>>]
    /\ visited' = Append(visited, feedIdx)
    /\ feedIdx' = feedIdx + 1
    /\ UNCHANGED <<config, pc, scans, dashboard, cover_letter, scoreVars, hashVars>>

\* a pass of the for loop in which the exception leaves scan_opportunities
ScanFeedRaisePropagates ==
    /\ pc = "scanning"
    /\ feedIdx <= NumFeeds
    /\ \E entries \in FeedEntries, done \in 0..MaxFeedLen :
        LET taken == prefix(entries, config.scanning.max_entries_per_feed)
            processed == [i \in 1..done |->
                            processed_table[config, taken[i], feedIdx]]
        IN  /\ (done < Len(taken) \/ (done = 0 /\ entries = <<>>))
            /\ opportunities' = opportunities \o kept(config, processed)
            /\ fetched' = fetched + Len(entries)
            /\ hasherCalls' = hasherCalls \cup {"scan_opportunities:checking"}
                   \cup (IF done = 0 THEN {} ELSE process_hasher_calls(config))
            /\ lastFeed' = [feed |-> feedIdx, processed |-> processed, raised |-> TRUE,
                            after_raise |-> lastFeed.raised /\ visited # <<>>]
    /\ visited' = Append(visited, feedIdx)
    /\ pc' = "done"
    /\ UNCHANGED <<config, feedIdx, scans, dashboard, cover_letter, scoreVars, hashVars>>

\* one pass of the for loop in which the try block raises: at the fetch
\* (no entries) or while entry number done + 1 is processed, before any
\* hashing for that entry; the except clause prints and the loop goes on
ScanFeedRaise ==
    /\ pc = "scanning"
    /\ feedIdx <= NumFeeds
    /\ \E entries \in FeedEntries, done \in 0..MaxFeedLen :
        LET taken == prefix(entries, config.scanning.max_entries_per_feed)
            processed == [i \in 1..done |->
                            processed_table[config, taken[i], feedIdx]]
        IN  /\ (done < Len(taken) \/ (done = 0 /\ entries = <<>>))
            /\ opportunities' = opportunities \o kept(config, processed)
            /\ fetched' = fetched + Len(entries)
            /\ hasherCalls' = hasherCalls \cup {"scan_opportunities:checking"}
                   \cup (IF done = 0 THEN {} ELSE process_hasher_calls(config))
                   \cup (IF config.privacy.log_sensitive_data THEN {}
                         ELSE {"scan_opportunities:error"})
            /\ lastFeed' = [feed |-> feedIdx, processed |-> processed, raised |-> TRUE,
                            after_raise |-> lastFeed.raised /\ visited # <<>>]
    /\ visited' = Append(visited, feedIdx)
    /\ feedIdx' = feedIdx + 1
    /\ UNCHANGED <<config, pc, scans, dashboard, cover_letter, scoreVars, hashVars>>

\* the for loop is exhausted and scan_opportunities returns
EndScan ==
    /\ pc = "scanning"
    /\ feedIdx > NumFeeds
    /\ pc' = "scanned"
    /\ UNCHANGED <<config, opportunities, feedIdx, visited, fetched, scans, hasherCalls,
                   dashboard, cover_letter, lastFeed, scoreVars, hashVars>>

----------------------------------------------------------------------------
(* create_dashboard, run_complete_scan *)

\* round(x, 3), ties to even
round3(x) ==
    LET q == (x[1] * Decimals) \div x[2]
        r == (x[1] * Decimals) % x[2]
        k == IF 2 * r < x[2] THEN q
             ELSE IF 2 * r > x[2] THEN q + 1
             ELSE IF q % 2 = 0 THEN q ELSE q + 1
    IN  Rat(k, Decimals)

\* insert x behind every element that is not smaller (ascending: not larger)
RECURSIVE insert_asc(_, _)
insert_asc(sorted, x) ==
    IF sorted = <<>> THEN <<x>>
    ELSE IF RatLeq(Head(sorted).relevance, x.relevance)
         THEN <<Head(sorted)>> \o insert_asc(Tail(sorted), x)
         ELSE <<x>> \o sorted

RECURSIVE insert_desc(_, _)
insert_desc(sorted, x) ==
    IF sorted = <<>> THEN <<x>>
    ELSE IF RatLeq(x.relevance, Head(sorted).relevance)
         THEN <<Head(sorted)>> \o insert_desc(Tail(sorted), x)
         ELSE <<x>> \o sorted

\* list.sort(key=relevance) without reverse=True
RECURSIVE sort_by_relevance_ascending(_)
sort_by_relevance_ascending(opps) ==
    IF opps = <<>> THEN <<>>
    ELSE insert_asc(sort_by_relevance_ascending(SubSeq(opps, 1, Len(opps) - 1)),
                    opps[Len(opps)])

\* list.sort(key=lambda x: x['relevance'], reverse=True): stable, descending
RECURSIVE sort_by_relevance(_)
sort_by_relevance(opps) ==
    IF opps = <<>> THEN <<>>
    ELSE insert_desc(sort_by_relevance(SubSeq(opps, 1, Len(opps) - 1)),
                     opps[Len(opps)])

dashboard_row(opp) ==
    [ID |-> opp.id,
     Title |-> opp.title,
     Relevance_Score |-> round3(opp.relevance),
     Source |-> opp.source,
     Published |-> IF opp.published # <<>> THEN prefix(opp.published, DateLen)
                   ELSE <<"U","n","k","n","o","w","n">>,
     Status |-> <<"N","o","t"," ","A","p","p","l","i","e","d">>]

\* create_dashboard returns the DataFrame, or None when nothing was found
CreateDashboard ==
    /\ pc = "scanned"
    /\ IF opportunities = <<>>
       THEN /\ dashboard' = None
            /\ UNCHANGED opportunities
       ELSE /\ opportunities' = sort_by_relevance(opportunities)
            /\ dashboard' = << [i \in 1..Len(opportunities) |->
                                   dashboard_row(opportunities'[i])] >>
    /\ pc' = "dashboard"
    /\ UNCHANGED <<config, feedIdx, visited, fetched, scans, hasherCalls, cover_letter,
                   lastFeed, scoreVars, hashVars>>

\* create_dashboard raises after the sort (the CSV cannot be written);
\* run_complete_scan catches it and ends without a cover letter
CreateDashboardFails ==
    /\ pc = "scanned"
    /\ opportunities # <<>>
    /\ opportunities' = sort_by_relevance(opportunities)
    /\ dashboard' = None
    /\ pc' = "done"
    /\ UNCHANGED <<config, feedIdx, visited, fetched, scans, hasherCalls, cover_letter,
                   lastFeed, scoreVars, hashVars>>

\* generate_cover_letter_template(self.opportunities[0]): random.choice
\* picks one of the two templates, format() fills in the title
GenerateCoverLetter ==
    /\ pc = "dashboard"
    /\ opportunities # <<>>
    /\ \E template \in {1, 2} :
        cover_letter' = << [template |-> template, title |-> opportunities[1].title] >>
    /\ pc' = "done"
    /\ UNCHANGED <<config, opportunities, feedIdx, visited, fetched, scans, hasherCalls,
                   dashboard, lastFeed, scoreVars, hashVars>>

\* if self.opportunities: is false, no cover letter is written
SkipCoverLetter ==
    /\ pc = "dashboard"
    /\ opportunities = <<>>
    /\ pc' = "done"
    /\ UNCHANGED <<config, opportunities, feedIdx, visited, fetched, scans, hasherCalls,
                   dashboard, cover_letter, lastFeed, scoreVars, hashVars>>

Init ==
    /\ config \in BotConfigs
    /\ BotIdle
    /\ ScoreIdle
    /\ HashIdle

Next ==
    \/ StartScan
    \/ ScanFeed
    \/ ScanFeedRaise
    \/ EndScan
    \/ CreateDashboard
    \/ CreateDashboardFails
    \/ GenerateCoverLetter
    \/ SkipCoverLetter

Spec == Init /\ [][Next]_vars

----------------------------------------------------------------------------
(* Properties of the hasher *)

\* the network location: what follows the first "://" up to the next "/"
netloc(u) ==
    LET rest == SubSeq(u, find(u, <<":","/","/">>) + 4, Len(u))
        cut == find(rest, <<"/">>)
    IN  IF cut < 0 THEN rest ELSE SubSeq(rest, 1, cut)

\* the whole string up to its first "/"
up_to_slash(u) ==
    LET cut == find(u, <<"/">>) IN IF cut < 0 THEN u ELSE SubSeq(u, 1, cut)

\* "https://" + HashLen lowercase hexadecimal characters + ".edu"
IsPseudonymUrl(h) ==
    /\ Len(h) = 8 + HashLen + 4
    /\ SubSeq(h, 1, 8) = <<"h","t","t","p","s",":","/","/">>
    /\ \A i \in 9..(8 + HashLen) : h[i] \in Range(HexDigits)
    /\ SubSeq(h, 9 + HashLen, Len(h)) = <<".","e","d","u">>

\* C4: for every URL, hash_url hashes exactly the network location (what
\* follows "://" and ends before the first following "/") and returns
\* "https://" + hash_data(network location) + ".edu", also when the path or
\* the query holds a further "//".
C4_HashesNetloc ==
    (op = "hash_url" /\ Contains(<<":","/","/">>, url)) =>
        hashed = <<"h","t","t","p","s",":","/","/">> \o hash_data(netloc(url)) \o <<".","e","d","u">>

\* C5: for an input with no scheme separator the whole string up to its first
\* "/" is treated as the domain, and for every input the result is a
\* well-formed pseudonym URL.
C5_MalformedFallback ==
    op = "hash_url" =>
        /\ IsPseudonymUrl(hashed)
        /\ ~Contains(<<":","/","/">>, url) =>
               hashed = <<"h","t","t","p","s",":","/","/">> \o hash_data(up_to_slash(url)) \o <<".","e","d","u">>

\* every result of hash_url is a well-formed pseudonym URL; an input
\* without "//" is hashed up to its first "/", and a URL whose only "//" is
\* the one of "://" is hashed by its network location
HashUrlWellFormed ==
    op = "hash_url" =>
        /\ IsPseudonymUrl(hashed)
        /\ ~Contains(<<"/","/">>, url) => url_domain(url) = up_to_slash(url)
        /\ (Len(split(url, <<"/","/">>)) = 2 /\ find(url, <<":","/","/">>) >= 0
              /\ find(url, <<"/","/">>) = find(url, <<":","/","/">>) + 1)
           => url_domain(url) = netloc(url)

----------------------------------------------------------------------------
(* Properties of the scorer *)

\* the keyword sequence of section 3: fixed academic terms, research
\* interests, technical skills flattened across categories, lower-cased
RefKeywords(cfg) ==
    LET lowered(ks) == [i \in 1..Len(ks) |-> lower(ks[i])]
    IN  academic_keywords
        \o lowered(cfg.user_profile.research_interests)
        \o lowered(Flatten(cfg.user_profile.technical_skills))

\* c: the keywords whose lower-cased form is a substring of the lower-cased text
RefCount(t, kws) ==
    LET text_lower == lower(t)
    IN  Cardinality({i \in 1..Len(kws) : Contains(lower(kws[i]), text_lower)})

\* min(1.5 * c / n, 1.0), and 0.0 for n = 0
RefScore(c, n) ==
    IF n = 0 THEN Zero
    ELSE IF BoostNum * c >= BoostDen * n THEN One
    ELSE <<BoostNum * c, BoostDen * n>>

\* C1: for every text and every keyword configuration the score returned by
\* calculate_relevance lies in the closed interval [0.0, 1.0].
C1_ScoreInUnitInterval ==
    op # "init" => RatLeq(Zero, relevance) /\ RatLeq(relevance, One)

\* a score was computed where 1.5 * c / n exceeds 1, so the clamp acted
C1_Witness ==
    /\ op = "calc"
    /\ relevance = One
    /\ BoostNum * RefCount(text, RefKeywords(config))
         > BoostDen * Len(RefKeywords(config))

\* C2: the score equals the reference function: 0.0 for an empty keyword
\* sequence, otherwise min(1.5 * c / n, 1.0) with n the number of keywords and
\* c the number of keywords occurring in the text, each counted once however
\* often it occurs.
C2_ScoreIsReference ==
    op # "init" =>
        RatEq(relevance,
              RefScore(RefCount(text, RefKeywords(config)), Len(RefKeywords(config))))

\* a text was scored in which a keyword occurs twice, below the clamp
C2_Witness ==
    /\ op = "calc"
    /\ \E i \in DOMAIN RefKeywords(config) :
           occurrences(RefKeywords(config)[i], lower(text)) >= 2
    /\ RatLt(Zero, relevance)
    /\ RatLt(relevance, One)

\* C3 (as stated): adding a second copy of a keyword that is already in the
\* sequence leaves the score unchanged.
C3_DuplicateIdempotent ==
    op = "dup" => RatEq(relevance, prev)

\* C3 (amended): every copy of a keyword is counted: a second copy of a
\* keyword turns the score from min(1.5*c/n, 1.0) into
\* min(1.5*(c+m)/(n+1), 1.0), m being 1 if the keyword occurs in the text and
\* 0 if not; so the score never falls when the copy matches and never rises
\* when it does not.
C3_DuplicateCounted ==
    op = "dup" =>
        LET n == Len(RefKeywords(config))
            c == RefCount(text, RefKeywords(config))
            m == IF Contains(editkw, lower(text)) THEN 1 ELSE 0
        IN  /\ RatEq(relevance, RefScore(c, n))
            /\ RatEq(prev, RefScore(c - m, n - 1))
            /\ (m = 1 => RatLeq(prev, relevance))
            /\ (m = 0 => RatLeq(relevance, prev))

\* a matching keyword was added a second time and the score rose
C3_Witness ==
    /\ op = "dup"
    /\ Contains(editkw, lower(text))
    /\ RatLt(prev, relevance)

\* C7: with the text and the number of keywords fixed, replacing a keyword
\* that does not match the text by one that does never lowers the score.
C7_Monotonic ==
    op = "replace" => RatLeq(prev, relevance)

\* a non-matching keyword was replaced by a matching one and the score rose
C7_Witness ==
    /\ op = "replace"
    /\ RatLt(prev, relevance)

----------------------------------------------------------------------------
(* Properties of the scan, the dashboard and the cover letter *)

Count(x, s) == Cardinality({i \in DOMAIN s : s[i] = x})

AboveThreshold(opp) == RatLeq(config.scanning.min_relevance_score, opp.relevance)

\* the step is one pass of the for loop of scan_opportunities
FeedStep == Len(visited') = Len(visited) + 1

\* C6 (as stated): with hash_identifiers false no call of hash_data or
\* hash_url occurs, and the identifier is the caller's own fallback.
C6_HasherOnlyWhenEnabled ==
    ~config.privacy.hash_identifiers =>
        /\ hasherCalls = {}
        /\ \A i \in DOMAIN opportunities :
              Len(opportunities[i].id) = FallbackLen

\* C6 (amended): with hash_identifiers false process_opportunity does not use
\* hash_data for the identifier, which is the caller's own 8-character
\* fallback; hash_url, and through it hash_data, runs whatever the flag says,
\* for every feed that is checked and for the source of every processed entry.
C6_IdHashedOnlyWhenEnabled ==
    /\ ~config.privacy.hash_identifiers =>
          /\ "process_opportunity:id" \notin hasherCalls
          /\ \A i \in DOMAIN opportunities :
                Len(opportunities[i].id) = FallbackLen
    /\ config.privacy.hash_identifiers =>
          \A i \in DOMAIN opportunities :
              Len(opportunities[i].id) = HashLen
    /\ visited # <<>> => "scan_opportunities:checking" \in hasherCalls
    /\ opportunities # <<>> =>
          /\ "process_opportunity:source" \in hasherCalls
          /\ \A i \in DOMAIN opportunities : IsPseudonymUrl(opportunities[i].source)

\* hashing is switched off, and an opportunity was recorded
C6_Witness ==
    /\ ~config.privacy.hash_identifiers
    /\ opportunities # <<>>
    /\ {"scan_opportunities:checking", "process_opportunity:source"} \subseteq hasherCalls

\* C8: every record in self.opportunities has relevance >= min_relevance_score
\* (an entry scoring exactly the threshold is kept, one scoring below is never
\* added), and records are only ever appended by the scan, never removed.
C8_KeptAboveThreshold ==
    [][ /\ \A i \in DOMAIN opportunities' : AboveThreshold(opportunities'[i])
        /\ FeedStep =>
              opportunities' =
                 opportunities \o SelectSeq(lastFeed'.processed, AboveThreshold)
        /\ ~FeedStep =>
              /\ Len(opportunities') = Len(opportunities)
              /\ \A i \in DOMAIN opportunities :
                    Count(opportunities[i], opportunities')
                       = Count(opportunities[i], opportunities)
      ]_vars

\* one entry of the last feed scored below the threshold and was left out,
\* and a recorded opportunity scores exactly the threshold
C8_Witness ==
    /\ \E i \in DOMAIN lastFeed.processed : ~AboveThreshold(lastFeed.processed[i])
    /\ \E i \in DOMAIN opportunities :
          RatEq(opportunities[i].relevance, config.scanning.min_relevance_score)

\* C9: an exception raised while feed i is fetched or processed does not
\* leave scan_opportunities, keeps every opportunity appended before it
\* (those of earlier entries of feed i too), and every later feed is still
\* processed, in order.
C9_FeedFailuresIsolated ==
    [][ /\ (FeedStep /\ lastFeed'.raised) =>
              /\ pc' = "scanning"
              /\ feedIdx' = feedIdx + 1
              /\ opportunities' =
                    opportunities \o SelectSeq(lastFeed'.processed, AboveThreshold)
        /\ (pc = "scanning" /\ pc' # "scanning") =>
              /\ pc' = "scanned"
              /\ visited = [i \in 1..NumFeeds |-> i]
      ]_vars

\* a feed raised after one of its entries was recorded, and the next feed
\* was processed and added an opportunity behind that one
C9_Witness ==
    /\ pc = "scanning"
    /\ lastFeed.after_raise
    /\ ~lastFeed.raised
    /\ \E i \in DOMAIN lastFeed.processed : AboveThreshold(lastFeed.processed[i])
    /\ Len(opportunities) = MaxFetched

\* C10: after create_dashboard self.opportunities and the dashboard rows are
\* in non-increasing order of relevance, so the opportunity of the sample
\* cover letter (index 0) has the maximum relevance; with an empty list
\* create_dashboard returns None and no cover letter is generated.
C10_DashboardRanked ==
    /\ (pc = "dashboard" /\ opportunities # <<>>) =>
          /\ dashboard # None
          /\ Len(dashboard[1]) = Len(opportunities)
          /\ \A i \in DOMAIN opportunities :
                /\ dashboard[1][i].ID = opportunities[i].id
                /\ dashboard[1][i].Relevance_Score = round3(opportunities[i].relevance)
          /\ \A i \in 1..(Len(opportunities) - 1) :
                /\ RatLeq(opportunities[i + 1].relevance, opportunities[i].relevance)
                /\ RatLeq(dashboard[1][i + 1].Relevance_Score,
                          dashboard[1][i].Relevance_Score)
    /\ (pc = "done" /\ dashboard # None) =>
          /\ cover_letter # None
          /\ cover_letter[1].title = opportunities[1].title
          /\ \A i \in DOMAIN opportunities :
                RatLeq(opportunities[i].relevance, opportunities[1].relevance)
    /\ (pc \in {"dashboard", "done"} /\ opportunities = <<>>) =>
          /\ dashboard = None
          /\ cover_letter = None

\* the run ended with a cover letter for an opportunity that the scan had
\* appended behind a less relevant one
C10_Witness ==
    /\ pc = "done"
    /\ cover_letter # None
    /\ Len(lastFeed.processed) = 2
    /\ RatLt(lastFeed.processed[1].relevance, lastFeed.processed[2].relevance)
    /\ AboveThreshold(lastFeed.processed[1])
    /\ opportunities[1] = lastFeed.processed[2]

====
